---- MODULE Spec2Model ----
(***************************************************************************)
(* Ticket inventory reservation and check-in of the eventix API.           *)
(*                                                                         *)
(* The Inventory Store is the ticket_tiers table (gorm, database.DB), the  *)
(* Reservation Ledger is Redis (cache.Client) with one key per             *)
(* reservation and a time-to-live.  Request handlers run as goroutines;    *)
(* every call to the database or to Redis is one atomic step, and what a   *)
(* handler computes on its own copies between two such calls belongs to    *)
(* the step of the call that follows.  A store call fails where the code   *)
(* has a branch for its error.                                             *)
(***************************************************************************)
EXTENDS Integers, Sequences, FiniteSets, TLC

(***************************************************************************)
(* Bounds of the model.                                                    *)
(***************************************************************************)
MaxReservations == 2   \* reservation ids generated in one run
TierQuantity == 2      \* TicketTierReq.Quantity the tiers were created with
MaxQuantity == 2       \* largest quantity a caller asks for
MaxOrders == 1         \* orders created in one run
MaxTickets == 2        \* tickets issued in one run
MaxCalls == 3          \* requests handled in one run
MaxClock == 15         \* minutes of simulated time

(***************************************************************************)
(* Program constants.                                                      *)
(***************************************************************************)
\* utils.ReservationExpirySeconds: 15 * time.Minute, in minutes
ReservationExpirySeconds == 15

\* ReserveTicketRequest.Quantity: validate:"required,min=1,max=10"
MaxPerOrder == 10

\* the goroutines that handle requests concurrently
Procs == {"g1", "g2"}
RIDs == 1..MaxReservations
\* an id no reservation was ever given: a uuid a caller made up
NoSuchReservation == 0
Tiers == {"t1", "t2"}
\* a tier of e1 whose sale window is set
WindowTiers == {"t3"}
\* a tier id with no row in ticket_tiers
NoSuchTier == "t0"
TierIDs == Tiers \cup {NoSuchTier}
Quantities == 1..MaxQuantity
\* the values of an int a caller can pass as quantity: also zero and below
AnyQuantities == (0 - 1)..MaxQuantity
\* how far the clock moves in one step, in minutes
TickMinutes == {10, 15}

\* TicketTierReq.Price: the prices a tier is given, in the smallest unit of the currency
Prices == {5, 7}

\* models.EventStatus of the event a tier belongs to
EventPublished == "published"
EventDraft == "draft"

\* models.TicketStatus
TicketReserved == "reserved"
TicketActive == "active"
TicketUsed == "used"
TicketCancelled == "cancelled"
TicketRefunded == "refunded"

\* the events: t1 and t3 are tiers of e1, t2 of e2
Events == {"e1", "e2"}
\* a *time.Time that is nil
NoTime == -1

VARIABLES
    tiers,      \* ticket_tiers rows: tier id -> row
    redis,      \* reservation keys: id -> [data, deadline] or NoKey
    now,        \* time.Now(), in minutes
    nextRid,    \* next id utils.GenerateReservationID returns
    orders,     \* orders rows, in creation order
    pc,         \* where each goroutine stands in its handler
    local,      \* each goroutine's local variables
    ret,        \* what each goroutine's last call returned
    tickets,    \* tickets rows, in creation order: the id is the index
    checkins,   \* checkins rows, in creation order
    held,       \* history: id -> the reservation CreateReservation returned
    calls,      \* requests handled so far
    released,   \* history: id -> number of times its quantity was added back
    started,    \* history: id -> the call that made it and the available quantity it read
    payments    \* payments rows, in creation order

vars ==
    <<calls, tiers, redis, now, nextRid, orders, tickets, checkins, pc, local, ret, held,
      released, started, payments>>

NoKey == [present |-> FALSE]
NoReservation ==
    [reservation_id |-> NoSuchReservation, tier_id |-> NoSuchTier, quantity |-> 0,
     unit_price |-> 0, total_price |-> 0, expires_at |-> 0, created_at |-> 0]
NoRow ==
    [event_id |-> "none", event_status |-> EventDraft, price |-> 0, total_quantity |-> 0,
     available_quantity |-> 0, sale_start_time |-> NoTime, sale_end_time |-> NoTime]
\* a scan code no ticket has
InvalidCode == <<"TICKET", 0, 0>>
NoTicket ==
    [id |-> 0, tier_id |-> NoSuchTier, order_id |-> 0, owner_id |-> "none",
     qr_code |-> InvalidCode, status |-> TicketReserved, checked_in_at |-> NoTime]
NoOrder == [total_amount |-> 0, status |-> "none", request_reservation_id |-> NoSuchReservation]
NoLocal ==
    [tier |-> NoRow, reservation |-> NoReservation, ticket |-> NoTicket, event_id |-> "none",
     order |-> NoOrder, order_id |-> 0]
NoStart == [call |-> 0, available_quantity |-> 0]
NoReturn == [op |-> "none", rid |-> NoSuchReservation, ticket |-> 0, err |-> "none"]

(***************************************************************************)
(* CreateEventHandler: a tier starts with available = total = Quantity and  *)
(* no sale window; events are created as drafts, the event of t1 and t3    *)
(* has been published.                                                     *)
(***************************************************************************)
NewTier(event, status) ==
    [event_id |-> event, event_status |-> status, price |-> CHOOSE x \in Prices : TRUE,
     total_quantity |-> TierQuantity,
     available_quantity |-> TierQuantity, sale_start_time |-> NoTime,
     sale_end_time |-> NoTime]

\* TicketTier.SaleStartTime and SaleEndTime: a row whose sale window is set
WindowedTier(event, status, saleStart, saleEnd) ==
    [NewTier(event, status) EXCEPT !.sale_start_time = saleStart, !.sale_end_time = saleEnd]

\* the rows of ticket_tiers with the ids S: t3 is on sale at minute 10 and at no
\* other time
TierRows(S) ==
    [t \in S |->
        CASE t = "t1" -> NewTier("e1", EventPublished)
          [] t = "t2" -> NewTier("e2", EventDraft)
          [] t = "t3" -> WindowedTier("e1", EventPublished, 10, 10)]

\* TicketTier.IsAvailable (user.go 187-203), at time.Now() = at
IsAvailable(row, at) ==
    IF row.available_quantity <= 0 THEN FALSE
    ELSE IF row.sale_start_time # NoTime /\ at < row.sale_start_time THEN FALSE
    ELSE IF row.sale_end_time # NoTime /\ at > row.sale_end_time THEN FALSE
    ELSE TRUE

Init ==
    /\ tiers = TierRows(Tiers)
    /\ redis = [r \in RIDs |-> NoKey]
    /\ now = 0
    /\ calls = 0
    /\ nextRid = 1
    /\ orders = <<>>
    /\ tickets = <<>>
    /\ checkins = <<>>
    /\ pc = [p \in Procs |-> "idle"]
    /\ local = [p \in Procs |-> NoLocal]
    /\ ret = [p \in Procs |-> NoReturn]
    /\ held = [r \in RIDs |-> NoReservation]
    /\ released = [r \in RIDs |-> 0]
    /\ started = [r \in RIDs |-> NoStart]
    /\ payments = <<>>

(***************************************************************************)
(* Redis.                                                                  *)
(***************************************************************************)
\* cache.Client.Get: the value of a key that is set and not past its TTL
RedisHas(rid) == rid \in RIDs /\ redis[rid].present /\ now < redis[rid].deadline

\* cache.Client.Set(ctx, key, data, expiration)
RedisSet(rid, data) ==
    [redis EXCEPT ![rid] =
        [present |-> TRUE, data |-> data, deadline |-> now + ReservationExpirySeconds]]

\* the key is left in place
RedisDelForgotten(rid) == redis

\* cache.Client.Del(ctx, key)
RedisDel(rid) == [redis EXCEPT ![rid] = NoKey]

\* the price of one ticket is taken for the total
CalculateTotalPriceOfOne(price, quantity) == price

\* utils.CalculateTotalPrice: price * float64(quantity)
CalculateTotalPrice(price, quantity) == price * quantity

\* lines 58-68: the ReservationData literal; the id is utils.GenerateReservationID,
\* a fresh one at every call
NewReservation(tierID, quantity) ==
    [reservation_id |-> nextRid, tier_id |-> tierID, quantity |-> quantity,
     unit_price |-> tiers[tierID].price,
     total_price |-> CalculateTotalPrice(tiers[tierID].price, quantity),
     expires_at |-> now + ReservationExpirySeconds, created_at |-> now]

\* the handler returns: its result stays visible until the goroutine ends
Return(p, op, rid, err) ==
    /\ ret' = [ret EXCEPT ![p] = [op |-> op, rid |-> rid, ticket |-> 0, err |-> err]]
    /\ pc' = [pc EXCEPT ![p] = "done"]
    /\ local' = [local EXCEPT ![p] = NoLocal]

(***************************************************************************)
(* TicketService.CreateReservation                                         *)
(***************************************************************************)
\* the quantity is taken from the tier before it is checked
CreateReservationTakesFirst(p, tierID, quantity) ==
    /\ pc[p] = "idle"
    /\ calls < MaxCalls
    /\ calls' = calls + 1
    /\ IF tierID \notin DOMAIN tiers
       THEN /\ Return(p, "CreateReservation", NoSuchReservation, "tier not found")
            /\ UNCHANGED <<tiers, nextRid, started>>
       ELSE IF tiers[tierID].available_quantity < quantity
       THEN /\ tiers' = [tiers EXCEPT ![tierID].available_quantity = @ - quantity]
            /\ Return(p, "CreateReservation", NoSuchReservation, "only N tickets available")
            /\ UNCHANGED <<nextRid, started>>
       ELSE IF tiers[tierID].event_status # EventPublished
       THEN /\ Return(p, "CreateReservation", NoSuchReservation,
                      "event is not available for booking")
            /\ UNCHANGED <<tiers, nextRid, started>>
       ELSE /\ nextRid <= MaxReservations
            /\ local' = [local EXCEPT ![p] =
                  [NoLocal EXCEPT !.tier = tiers[tierID],
                           !.reservation = NewReservation(tierID, quantity)]]
            /\ nextRid' = nextRid + 1
            /\ started' = [started EXCEPT ![nextRid] =
                  [call |-> calls + 1,
                   available_quantity |-> tiers[tierID].available_quantity]]
            /\ pc' = [pc EXCEPT ![p] = "cr_set"]
            /\ UNCHANGED <<tiers, ret>>
    /\ UNCHANGED <<redis, now, orders, tickets, checkins, held, released, payments>>

\* lines 42-68: read the tier, check it, build the reservation
CreateReservation(p, tierID, quantity) ==
    /\ pc[p] = "idle"
    /\ calls < MaxCalls
    /\ calls' = calls + 1
    /\ IF tierID \notin DOMAIN tiers
       THEN /\ Return(p, "CreateReservation", NoSuchReservation, "tier not found")
            /\ UNCHANGED <<nextRid, started>>
       ELSE IF tiers[tierID].available_quantity < quantity
       THEN /\ Return(p, "CreateReservation", NoSuchReservation, "only N tickets available")
            /\ UNCHANGED <<nextRid, started>>
       ELSE IF tiers[tierID].event_status # EventPublished
       THEN /\ Return(p, "CreateReservation", NoSuchReservation,
                      "event is not available for booking")
            /\ UNCHANGED <<nextRid, started>>
       ELSE /\ nextRid <= MaxReservations
            /\ local' = [local EXCEPT ![p] =
                  [NoLocal EXCEPT !.tier = tiers[tierID],
                           !.reservation = NewReservation(tierID, quantity)]]
            /\ nextRid' = nextRid + 1
            /\ started' = [started EXCEPT ![nextRid] =
                  [call |-> calls + 1,
                   available_quantity |-> tiers[tierID].available_quantity]]
            /\ pc' = [pc EXCEPT ![p] = "cr_set"]
            /\ UNCHANGED ret
    /\ UNCHANGED <<tiers, redis, now, orders, tickets, checkins, held, released, payments>>

\* lines 70-77: store the reservation in Redis
CreateReservationSet(p) ==
    /\ UNCHANGED calls
    /\ pc[p] = "cr_set"
    /\ \/ /\ redis' = RedisSet(local[p].reservation.reservation_id, local[p].reservation)
          /\ pc' = [pc EXCEPT ![p] = "cr_save"]
          /\ UNCHANGED <<local, ret>>
       \/ /\ Return(p, "CreateReservation", NoSuchReservation, "failed to create reservation")
          /\ UNCHANGED redis
    /\ UNCHANGED <<tiers, now, nextRid, orders, tickets, checkins, held, released>>
    /\ UNCHANGED <<started, payments>>

\* line 80: tier.AvailableQuantity -= quantity, on the copy read at line 43
DecrementedTier(row, quantity) ==
    [row EXCEPT !.available_quantity = row.available_quantity - quantity]

\* lines 79-87: database.DB.Save(&tier) writes the whole row from the copy
CreateReservationSave(p) ==
    /\ UNCHANGED calls
    /\ pc[p] = "cr_save"
    /\ LET r == local[p].reservation IN
       \/ /\ tiers' = [tiers EXCEPT ![r.tier_id] = DecrementedTier(local[p].tier, r.quantity)]
          /\ held' = [held EXCEPT ![r.reservation_id] = r]
          /\ Return(p, "CreateReservation", r.reservation_id, "none")
       \/ /\ pc' = [pc EXCEPT ![p] = "cr_rollback"]
          /\ UNCHANGED <<tiers, held, ret, local>>
    /\ UNCHANGED <<redis, now, nextRid, orders, tickets, checkins, released>>
    /\ UNCHANGED <<started, payments>>

\* the error is returned and the key is left in place
CreateReservationRollbackSkipped(p) ==
    /\ UNCHANGED calls
    /\ pc[p] = "cr_rollback"
    /\ Return(p, "CreateReservation", NoSuchReservation, "failed to reserve tickets")
    /\ UNCHANGED <<tiers, redis, now, nextRid, orders, tickets, checkins, held, released>>
    /\ UNCHANGED <<started, payments>>

\* lines 82-84: the Save failed, delete the key again
CreateReservationRollback(p) ==
    /\ UNCHANGED calls
    /\ pc[p] = "cr_rollback"
    /\ redis' = RedisDel(local[p].reservation.reservation_id)
    /\ Return(p, "CreateReservation", NoSuchReservation, "failed to reserve tickets")
    /\ UNCHANGED <<tiers, now, nextRid, orders, tickets, checkins, held, released>>
    /\ UNCHANGED <<started, payments>>

(***************************************************************************)
(* ReserveTicketHandler, the handler of POST /tickets/reserve              *)
(***************************************************************************)
\* line 687: tier.TotalQuantity - tier.TotalQuantity - tier.AvailableQuantity
HandlerAvailable(row) == row.total_quantity - row.total_quantity - row.available_quantity

\* lines 680-715: the tier is read and checked; the response names a new uuid as
\* the reservation, which is stored nowhere, and no row is written
ReserveTicketHandler(p, tierID, quantity) ==
    /\ pc[p] = "idle"
    /\ calls < MaxCalls
    /\ calls' = calls + 1
    /\ IF tierID \notin DOMAIN tiers
       THEN Return(p, "ReserveTicketHandler", NoSuchReservation, "Ticket tier not found")
       ELSE IF HandlerAvailable(tiers[tierID]) < quantity
       THEN Return(p, "ReserveTicketHandler", NoSuchReservation, "Only N tickets available")
       ELSE IF tiers[tierID].event_status # EventPublished
       THEN Return(p, "ReserveTicketHandler", NoSuchReservation,
                   "Event is not available for booking")
       ELSE Return(p, "ReserveTicketHandler", NoSuchReservation, "none")
    /\ UNCHANGED <<tiers, redis, now, nextRid, orders, tickets, checkins, held, released,
                   started, payments>>

(***************************************************************************)
(* TicketService.GetReservation                                            *)
(***************************************************************************)
\* lines 95-98: the key is there and its TTL has not run out
GetReservationFound(rid) == RedisHas(rid)

GetReservation(p, rid) ==
    /\ pc[p] = "idle"
    /\ calls < MaxCalls
    /\ calls' = calls + 1
    /\ IF GetReservationFound(rid)
       THEN Return(p, "GetReservation", rid, "none")
       ELSE Return(p, "GetReservation", rid, "reservation not found or expired")
    /\ UNCHANGED <<tiers, redis, now, nextRid, orders, tickets, checkins, held, released>>
    /\ UNCHANGED <<started, payments>>

(***************************************************************************)
(* TicketService.DeleteReservation                                         *)
(***************************************************************************)
\* lines 110-113
DeleteReservation(p, rid) ==
    /\ pc[p] = "idle"
    /\ calls < MaxCalls
    /\ calls' = calls + 1
    /\ IF GetReservationFound(rid)
       THEN /\ local' = [local EXCEPT ![p] = [NoLocal EXCEPT !.reservation = redis[rid].data]]
            /\ pc' = [pc EXCEPT ![p] = "dr_update"]
            /\ UNCHANGED ret
       ELSE Return(p, "DeleteReservation", rid, "reservation not found or expired")
    /\ UNCHANGED <<tiers, redis, now, nextRid, orders, tickets, checkins, held, released>>
    /\ UNCHANGED <<started, payments>>

\* the row is left as it is
IncrementedTierLost(row, quantity) == row

\* gorm.Expr("available_quantity + ?", reservation.Quantity) on the stored row
IncrementedTier(row, quantity) ==
    [row EXCEPT !.available_quantity = row.available_quantity + quantity]

\* lines 115-121
DeleteReservationUpdate(p) ==
    /\ UNCHANGED calls
    /\ pc[p] = "dr_update"
    /\ LET r == local[p].reservation IN
       \/ /\ tiers' = [tiers EXCEPT ![r.tier_id] = IncrementedTier(tiers[r.tier_id], r.quantity)]
          /\ released' = [released EXCEPT ![r.reservation_id] = @ + 1]
          /\ pc' = [pc EXCEPT ![p] = "dr_del"]
          /\ UNCHANGED <<local, ret>>
       \/ /\ Return(p, "DeleteReservation", r.reservation_id, "failed to release tickets")
          /\ UNCHANGED <<tiers, released>>
    /\ UNCHANGED <<redis, now, nextRid, orders, tickets, checkins, held>>
    /\ UNCHANGED <<started, payments>>

\* lines 123-127: the result of Del is not looked at, the call returns nil
DeleteReservationDel(p) ==
    /\ UNCHANGED calls
    /\ pc[p] = "dr_del"
    /\ redis' = RedisDel(local[p].reservation.reservation_id)
    /\ Return(p, "DeleteReservation", local[p].reservation.reservation_id, "none")
    /\ UNCHANGED <<tiers, now, nextRid, orders, tickets, checkins, held, released>>
    /\ UNCHANGED <<started, payments>>

(***************************************************************************)
(* CreateOrderHandler: the request names a reservation; the handler        *)
(* creates a pending order of amount 0 and reads no reservation.           *)
(***************************************************************************)
\* lines 789-793; request_reservation_id is history, CreateOrderRequest.ReservationID
\* of the request: the row stores no reservation
NewOrder(rid) ==
    [total_amount |-> 0, status |-> "pending", request_reservation_id |-> rid]

CreateOrderHandler(p, rid) ==
    /\ pc[p] = "idle"
    /\ calls < MaxCalls
    /\ calls' = calls + 1
    /\ Len(orders) < MaxOrders
    /\ \/ /\ orders' = Append(orders, NewOrder(rid))
          /\ Return(p, "CreateOrderHandler", rid, "none")
       \/ /\ Return(p, "CreateOrderHandler", rid, "Failed to create order")
          /\ UNCHANGED orders
    /\ UNCHANGED <<tiers, redis, now, nextRid, tickets, checkins, held, released>>
    /\ UNCHANGED <<started, payments>>

(***************************************************************************)
(* The goroutine of a request ends once its response is written.           *)
(***************************************************************************)
Finish(p) ==
    /\ UNCHANGED calls
    /\ pc[p] = "done"
    /\ pc' = [pc EXCEPT ![p] = "idle"]
    /\ ret' = [ret EXCEPT ![p] = NoReturn]
    /\ UNCHANGED <<tiers, redis, now, nextRid, orders, tickets, checkins, local, held, released>>
    /\ UNCHANGED <<started, payments>>

(***************************************************************************)
(* Time passes; Redis drops the keys whose TTL has run out.                *)
(***************************************************************************)
Tick(d) ==
    /\ now + d <= MaxClock
    /\ UNCHANGED calls
    /\ now' = now + d
    /\ redis' = [r \in RIDs |->
                   IF redis[r].present /\ redis[r].deadline <= now + d
                   THEN NoKey ELSE redis[r]]
    /\ UNCHANGED <<tiers, nextRid, orders, tickets, checkins, pc, local, ret, held, released>>
    /\ UNCHANGED <<started, payments>>

(***************************************************************************)
(* TicketService.CreateTicketsFromOrder                                    *)
(***************************************************************************)
\* utils.GenerateQRCode: TICKET-{first 8 characters of the uuid}-{timestamp}-{8
\* random characters}; ticketID stands for the random characters of the code
GenerateQRCode(ticketID) == <<"TICKET", ticketID, now>>

\* lines 134-146: the i-th ticket of the batch, codes[i] the random characters of
\* its code
NewTicket(i, orderID, tierID, userID, codes) ==
    [id |-> Len(tickets) + i, tier_id |-> tierID, order_id |-> orderID, owner_id |-> userID,
     qr_code |-> GenerateQRCode(codes[i]), status |-> TicketActive,
     checked_in_at |-> NoTime]

\* the codes uuid.New and rand.Read give when no two of them are alike
FreshCodes(quantity) == [i \in 1..quantity |-> Len(tickets) + i]

\* no index on tickets.qr_code
UniqueCodesUnindexed(rows) == TRUE

\* the uniqueIndex on tickets.qr_code: no two rows of the batch and no row of
\* the batch and of the table have the same code
UniqueCodes(rows) ==
    /\ \A i, j \in 1..Len(rows) : rows[i].qr_code = rows[j].qr_code => i = j
    /\ \A i \in 1..Len(rows) : \A k \in 1..Len(tickets) : rows[i].qr_code # tickets[k].qr_code

\* the rows before the one that failed stay in the table
FailedCreatePartial(rows) == tickets \o SubSeq(rows, 1, Len(rows) - 1)

\* database.DB.Create(&tickets) that fails: one INSERT of all the rows, in the
\* transaction gorm opens for it, none of them stays
FailedCreate(rows) == tickets

\* lines 148-153: one database.DB.Create of the whole batch; the error returned
\* wraps the one of the database
CreateTicketsFromOrder(p, orderID, tierID, userID, quantity, codes) ==
    /\ pc[p] = "idle"
    /\ calls < MaxCalls
    /\ calls' = calls + 1
    /\ Len(tickets) + quantity <= MaxTickets
    /\ LET rows == [i \in 1..quantity |-> NewTicket(i, orderID, tierID, userID, codes)] IN
       \/ /\ UniqueCodes(rows)
          /\ tickets' = tickets \o rows
          /\ Return(p, "CreateTicketsFromOrder", NoSuchReservation, "none")
       \/ /\ ~UniqueCodes(rows)
          /\ tickets' = FailedCreate(rows)
          /\ Return(p, "CreateTicketsFromOrder", NoSuchReservation,
                    "failed to create tickets: duplicate key")
       \/ /\ tickets' = FailedCreate(rows)
          /\ Return(p, "CreateTicketsFromOrder", NoSuchReservation,
                    "failed to create tickets: store failed")
    /\ UNCHANGED <<tiers, redis, now, nextRid, orders, checkins, held, released>>
    /\ UNCHANGED <<started, payments>>

(***************************************************************************)
(* TicketService.ProcessOrderPayment                                       *)
(***************************************************************************)
\* lines 159-162: database.DB.Preload("Tickets").First(&order, orderID)
ProcessOrderPayment(p, orderID) ==
    /\ pc[p] = "idle"
    /\ calls < MaxCalls
    /\ calls' = calls + 1
    /\ IF orderID \in 1..Len(orders)
       THEN /\ local' = [local EXCEPT ![p] =
                  [NoLocal EXCEPT !.order = orders[orderID], !.order_id = orderID]]
            /\ pc' = [pc EXCEPT ![p] = "pp_save"]
            /\ UNCHANGED ret
       ELSE Return(p, "ProcessOrderPayment", NoSuchReservation, "order not found")
    /\ UNCHANGED <<tiers, redis, now, nextRid, orders, tickets, checkins, held, released,
                   started, payments>>

\* line 165, on the copy read at line 160
PaidOrder(row) == [row EXCEPT !.status = "paid"]

\* lines 164-168: database.DB.Save(&order); the tickets that were preloaded are
\* inserted again with ON CONFLICT DO NOTHING, which leaves their rows as they are
ProcessOrderPaymentSave(p) ==
    /\ UNCHANGED calls
    /\ pc[p] = "pp_save"
    /\ \/ /\ orders' = [orders EXCEPT ![local[p].order_id] = PaidOrder(local[p].order)]
          /\ pc' = [pc EXCEPT ![p] = "pp_create"]
          /\ UNCHANGED <<local, ret>>
       \/ /\ Return(p, "ProcessOrderPayment", NoSuchReservation, "failed to update order")
          /\ UNCHANGED orders
    /\ UNCHANGED <<tiers, redis, now, nextRid, tickets, checkins, held, released, started,
                   payments>>

\* lines 171-179: the payment names no transaction, its TransactionID is ""
NewPayment(orderID, amount) ==
    [order_id |-> orderID, amount |-> amount, status |-> "completed", transaction_id |-> "",
     paid_at |-> now]

\* the uniqueIndex on payments.transaction_id
TransactionExists(transactionID) ==
    \E i \in 1..Len(payments) : payments[i].transaction_id = transactionID

\* lines 181-185: database.DB.Create(&payment)
ProcessOrderPaymentCreate(p) ==
    /\ UNCHANGED calls
    /\ pc[p] = "pp_create"
    /\ LET payment == NewPayment(local[p].order_id, local[p].order.total_amount) IN
       \/ /\ ~TransactionExists(payment.transaction_id)
          /\ payments' = Append(payments, payment)
          /\ Return(p, "ProcessOrderPayment", NoSuchReservation, "none")
       \/ /\ Return(p, "ProcessOrderPayment", NoSuchReservation, "failed to create payment")
          /\ UNCHANGED payments
    /\ UNCHANGED <<tiers, redis, now, nextRid, orders, tickets, checkins, held, released,
                   started>>

(***************************************************************************)
(* Check-in.                                                               *)
(***************************************************************************)
\* database.DB.Where("qr_code = ?", qrCode).First(&ticket): the id, 0 when no row
TicketByCode(qrCode) ==
    IF \E i \in 1..Len(tickets) : tickets[i].qr_code = qrCode
    THEN CHOOSE i \in 1..Len(tickets) : tickets[i].qr_code = qrCode
    ELSE 0

\* the messages of ValidateTicketForCheckin (lines 195, 200, 205, 210)
ServiceMessages ==
    [invalid |-> "invalid QR code", wrong_event |-> "QR code is not for this event",
     used |-> "ticket already checked in", not_active |-> "ticket is "]

\* the messages of ValidateQRCodeHandler (lines 886, 891, 896, 901)
HandlerMessages ==
    [invalid |-> "Invalid QR code", wrong_event |-> "QR code is not for this event",
     used |-> "Ticket already checked in", not_active |-> "Ticket is "]

\* the status of the ticket is looked at before its event
ValidationErrorStatusFirst(qrCode, eventID, msg) ==
    LET id == TicketByCode(qrCode) IN
    IF id = 0 THEN msg.invalid
    ELSE IF tickets[id].status = TicketUsed THEN msg.used
    ELSE IF tickets[id].status # TicketActive THEN msg.not_active \o tickets[id].status
    ELSE IF tiers[tickets[id].tier_id].event_id # eventID THEN msg.wrong_event
    ELSE "none"

\* the checks of ValidateTicketForCheckin (lines 190-211) and of
\* ValidateQRCodeHandler (lines 880-902), in their order
ValidationError(qrCode, eventID, msg) ==
    LET id == TicketByCode(qrCode) IN
    IF id = 0 THEN msg.invalid
    ELSE IF tiers[tickets[id].tier_id].event_id # eventID THEN msg.wrong_event
    ELSE IF tickets[id].status = TicketUsed THEN msg.used
    ELSE IF tickets[id].status # TicketActive THEN msg.not_active \o tickets[id].status
    ELSE "none"

ReturnTicket(p, op, ticketID, err) ==
    /\ ret' = [ret EXCEPT ![p] =
                 [op |-> op, rid |-> NoSuchReservation, ticket |-> ticketID, err |-> err]]
    /\ pc' = [pc EXCEPT ![p] = "done"]
    /\ local' = [local EXCEPT ![p] = NoLocal]

\* a row of checkins
NewCheckin(ticketID, eventID, scannedAt) ==
    [ticket_id |-> ticketID, event_id |-> eventID, scanned_at |-> scannedAt]

\* no index on checkins.ticket_id
CheckinExistsUnindexed(ticketID) == FALSE

\* the uniqueIndex on checkins.ticket_id
CheckinExists(ticketID) == \E i \in 1..Len(checkins) : checkins[i].ticket_id = ticketID

\* TicketService.ValidateTicketForCheckin: the caller goes on to CheckInTicket
ValidateTicketForCheckin(p, qrCode, eventID) ==
    /\ pc[p] = "idle"
    /\ calls < MaxCalls
    /\ calls' = calls + 1
    /\ IF ValidationError(qrCode, eventID, ServiceMessages) # "none"
       THEN ReturnTicket(p, "CheckInTicket", TicketByCode(qrCode),
                         ValidationError(qrCode, eventID, ServiceMessages))
       ELSE /\ local' = [local EXCEPT ![p] =
                  [NoLocal EXCEPT !.ticket = tickets[TicketByCode(qrCode)],
                                  !.event_id = eventID]]
            /\ pc' = [pc EXCEPT ![p] = "ci_save"]
            /\ UNCHANGED ret
    /\ UNCHANGED <<tiers, redis, now, nextRid, orders, tickets, checkins, held, released>>
    /\ UNCHANGED <<started, payments>>

\* TicketService.CheckInTicket, lines 218-221: on the copy the caller holds
UsedTicket(row) == [row EXCEPT !.status = TicketUsed, !.checked_in_at = now]

\* the check-in takes a seat from the tier of the ticket
CheckInTicketSaveTakesSeat(p) ==
    /\ UNCHANGED calls
    /\ pc[p] = "ci_save"
    /\ \/ /\ tickets' = [tickets EXCEPT ![local[p].ticket.id] = UsedTicket(local[p].ticket)]
          /\ tiers' = [tiers EXCEPT ![local[p].ticket.tier_id].available_quantity = @ - 1]
          /\ local' = [local EXCEPT ![p].ticket = UsedTicket(local[p].ticket)]
          /\ pc' = [pc EXCEPT ![p] = "ci_create"]
          /\ UNCHANGED ret
       \/ /\ ReturnTicket(p, "CheckInTicket", local[p].ticket.id, "failed to update ticket")
          /\ UNCHANGED <<tickets, tiers>>
    /\ UNCHANGED <<redis, now, nextRid, orders, checkins, held, released>>
    /\ UNCHANGED <<started, payments>>

\* TicketService.CheckInTicket, lines 223-225: database.DB.Save(ticket)
CheckInTicketSave(p) ==
    /\ UNCHANGED calls
    /\ pc[p] = "ci_save"
    /\ \/ /\ tickets' = [tickets EXCEPT ![local[p].ticket.id] = UsedTicket(local[p].ticket)]
          /\ local' = [local EXCEPT ![p].ticket = UsedTicket(local[p].ticket)]
          /\ pc' = [pc EXCEPT ![p] = "ci_create"]
          /\ UNCHANGED ret
       \/ /\ ReturnTicket(p, "CheckInTicket", local[p].ticket.id, "failed to update ticket")
          /\ UNCHANGED tickets
    /\ UNCHANGED <<tiers, redis, now, nextRid, orders, checkins, held, released>>
    /\ UNCHANGED <<started, payments>>

\* TicketService.CheckInTicket, lines 227-239: database.DB.Create(&checkin); the
\* error returned wraps the one of the database
CheckInTicketCreate(p) ==
    /\ UNCHANGED calls
    /\ pc[p] = "ci_create"
    /\ \/ /\ ~CheckinExists(local[p].ticket.id)
          /\ checkins' = Append(checkins,
                NewCheckin(local[p].ticket.id, local[p].event_id, local[p].ticket.checked_in_at))
          /\ ReturnTicket(p, "CheckInTicket", local[p].ticket.id, "none")
       \/ /\ CheckinExists(local[p].ticket.id)
          /\ ReturnTicket(p, "CheckInTicket", local[p].ticket.id,
                          "failed to create check-in record: duplicate key")
          /\ UNCHANGED checkins
       \/ /\ ReturnTicket(p, "CheckInTicket", local[p].ticket.id,
                          "failed to create check-in record: store failed")
          /\ UNCHANGED checkins
    /\ UNCHANGED <<tiers, redis, now, nextRid, orders, tickets, held, released>>
    /\ UNCHANGED <<started, payments>>

\* ValidateQRCodeHandler, lines 880-902
ValidateQRCodeHandler(p, qrCode, eventID) ==
    /\ pc[p] = "idle"
    /\ calls < MaxCalls
    /\ calls' = calls + 1
    /\ IF ValidationError(qrCode, eventID, HandlerMessages) # "none"
       THEN ReturnTicket(p, "ValidateQRCodeHandler", TicketByCode(qrCode),
                         ValidationError(qrCode, eventID, HandlerMessages))
       ELSE /\ local' = [local EXCEPT ![p] =
                  [NoLocal EXCEPT !.ticket = tickets[TicketByCode(qrCode)],
                                  !.event_id = eventID]]
            /\ pc' = [pc EXCEPT ![p] = "vh_save"]
            /\ UNCHANGED ret
    /\ UNCHANGED <<tiers, redis, now, nextRid, orders, tickets, checkins, held, released>>
    /\ UNCHANGED <<started, payments>>

\* ValidateQRCodeHandler, line 905: the status alone, CheckedInAt stays as read
HandlerUsedTicket(row) == [row EXCEPT !.status = TicketUsed]

\* ValidateQRCodeHandler, lines 904-908
ValidateQRCodeHandlerSave(p) ==
    /\ UNCHANGED calls
    /\ pc[p] = "vh_save"
    /\ \/ /\ tickets' = [tickets EXCEPT ![local[p].ticket.id] = HandlerUsedTicket(local[p].ticket)]
          /\ pc' = [pc EXCEPT ![p] = "vh_create"]
          /\ UNCHANGED <<local, ret>>
       \/ /\ ReturnTicket(p, "ValidateQRCodeHandler", local[p].ticket.id,
                          "Failed to update ticket")
          /\ UNCHANGED tickets
    /\ UNCHANGED <<tiers, redis, now, nextRid, orders, checkins, held, released>>
    /\ UNCHANGED <<started, payments>>

\* ValidateQRCodeHandler, lines 910-926: the checkin names no event, its EventID
\* is the zero uuid.  The insert is turned down when the ticket has a checkin
\* already (uniqueIndex on ticket_id), and also, where the migration has made the
\* foreign key of checkins.event_id, because no event has the zero uuid; the
\* error of Create is dropped and the response is the same either way
ValidateQRCodeHandlerCreate(p) ==
    /\ UNCHANGED calls
    /\ pc[p] = "vh_create"
    /\ \/ /\ ~CheckinExists(local[p].ticket.id)
          /\ checkins' = Append(checkins, NewCheckin(local[p].ticket.id, "none", now))
       \/ UNCHANGED checkins
    /\ ReturnTicket(p, "ValidateQRCodeHandler", local[p].ticket.id, "none")
    /\ UNCHANGED <<tiers, redis, now, nextRid, orders, tickets, held, released>>
    /\ UNCHANGED <<started, payments>>

\* the reservation ids a caller can name: the ones it was given, or a made-up one
KnownIDs == {r \in RIDs : held[r].reservation_id = r} \cup {NoSuchReservation}

Next ==
    \/ \E p \in Procs, t \in TierIDs, q \in Quantities : CreateReservation(p, t, q)
    \/ \E p \in Procs : CreateReservationSet(p)
    \/ \E p \in Procs : CreateReservationSave(p)
    \/ \E p \in Procs : CreateReservationRollback(p)
    \/ \E p \in Procs, r \in KnownIDs : GetReservation(p, r)
    \/ \E p \in Procs, r \in KnownIDs : DeleteReservation(p, r)
    \/ \E p \in Procs : DeleteReservationUpdate(p)
    \/ \E p \in Procs : DeleteReservationDel(p)
    \/ \E p \in Procs, r \in KnownIDs : CreateOrderHandler(p, r)
    \/ \E p \in Procs : Finish(p)
    \/ \E d \in TickMinutes : Tick(d)

Spec == Init /\ [][Next]_vars

(***************************************************************************)
(* The gate: an order exists, tickets are issued for it and scanned.       *)
(***************************************************************************)
InitCheckin ==
    /\ tiers = TierRows(Tiers)
    /\ redis = [r \in RIDs |-> NoKey]
    /\ now = 0
    /\ calls = 0
    /\ nextRid = 1
    /\ orders = <<NewOrder(NoSuchReservation)>>
    /\ tickets = <<>>
    /\ checkins = <<>>
    /\ pc = [p \in Procs |-> "idle"]
    /\ local = [p \in Procs |-> NoLocal]
    /\ ret = [p \in Procs |-> NoReturn]
    /\ held = [r \in RIDs |-> NoReservation]
    /\ released = [r \in RIDs |-> 0]
    /\ started = [r \in RIDs |-> NoStart]
    /\ payments = <<>>

\* the scan codes a scanner can present: the ones printed, or a made-up one
ScanCodes == {tickets[i].qr_code : i \in 1..Len(tickets)} \cup {InvalidCode}

NextCheckin ==
    \/ \E p \in Procs, t \in Tiers, q \in Quantities :
          CreateTicketsFromOrder(p, 1, t, "u1", q, FreshCodes(q))
    \/ \E p \in Procs, c \in ScanCodes, e \in Events : ValidateTicketForCheckin(p, c, e)
    \/ \E p \in Procs : CheckInTicketSave(p)
    \/ \E p \in Procs : CheckInTicketCreate(p)
    \/ \E p \in Procs, c \in ScanCodes, e \in Events : ValidateQRCodeHandler(p, c, e)
    \/ \E p \in Procs : ValidateQRCodeHandlerSave(p)
    \/ \E p \in Procs : ValidateQRCodeHandlerCreate(p)
    \/ \E p \in Procs : Finish(p)
    \/ \E d \in TickMinutes : Tick(d)

SpecCheckin == InitCheckin /\ [][NextCheckin]_vars

(***************************************************************************)
(* Ticket issuance: tickets are issued for the order, to either of two     *)
(* owners, and the random characters of a code can come out the same       *)
(* twice.                                                                  *)
(***************************************************************************)
Users == {"u1", "u2"}
\* the random characters a code can be made of
Codes == 1..MaxTickets

IssueCalls ==
    \/ \E p \in Procs, t \in Tiers, u \in Users, q \in Quantities :
          \E codes \in [1..q -> Codes] : CreateTicketsFromOrder(p, 1, t, u, q, codes)
    \/ \E p \in Procs : Finish(p)
    \/ \E d \in TickMinutes : Tick(d)

SpecIssue == InitCheckin /\ [][IssueCalls]_vars

(***************************************************************************)
(* The gate with tickets of every status.  A row of tickets that was       *)
(* inserted without a status has the default of the column, reserved; the  *)
(* refund/cancellation path, which is outside this service, takes an       *)
(* active ticket to cancelled or refunded with a compare-and-set of its    *)
(* status.                                                                 *)
(***************************************************************************)
\* Ticket.Status, gorm default:'reserved': a row inserted with no status
ReservedTicket(tierID) ==
    [id |-> Len(tickets) + 1, tier_id |-> tierID, order_id |-> 1, owner_id |-> "u1",
     qr_code |-> GenerateQRCode(Len(tickets) + 1), status |-> TicketReserved,
     checked_in_at |-> NoTime]

InsertReservedTicket(tierID) ==
    /\ Len(tickets) < MaxTickets
    /\ tickets' = Append(tickets, ReservedTicket(tierID))
    /\ UNCHANGED <<calls, tiers, redis, now, nextRid, orders, checkins, pc, local, ret, held,
                   released, started, payments>>

\* the statuses the refund/cancellation path gives a ticket
RefundStatuses == {TicketCancelled, TicketRefunded}

\* UPDATE tickets SET status = ? WHERE id = ? AND status = 'active'
ExternalStatusChange(id, status) ==
    /\ id \in 1..Len(tickets)
    /\ tickets[id].status = TicketActive
    /\ tickets' = [tickets EXCEPT ![id].status = status]
    /\ UNCHANGED <<calls, tiers, redis, now, nextRid, orders, checkins, pc, local, ret, held,
                   released, started, payments>>

GateCalls ==
    \/ \E p \in Procs, t \in Tiers, q \in Quantities :
          CreateTicketsFromOrder(p, 1, t, "u1", q, FreshCodes(q))
    \/ \E t \in Tiers : InsertReservedTicket(t)
    \/ \E id \in 1..MaxTickets, s \in RefundStatuses : ExternalStatusChange(id, s)
    \/ \E p \in Procs, c \in ScanCodes, e \in Events : ValidateTicketForCheckin(p, c, e)
    \/ \E p \in Procs : CheckInTicketSave(p)
    \/ \E p \in Procs : CheckInTicketCreate(p)
    \/ \E p \in Procs, c \in ScanCodes, e \in Events : ValidateQRCodeHandler(p, c, e)
    \/ \E p \in Procs : ValidateQRCodeHandlerSave(p)
    \/ \E p \in Procs : ValidateQRCodeHandlerCreate(p)
    \/ \E p \in Procs : Finish(p)
    \/ \E d \in TickMinutes : Tick(d)

SpecGate == InitCheckin /\ [][GateCalls]_vars

(***************************************************************************)
(* The sequential runs: while a goroutine is inside a handler, no other    *)
(* goroutine takes a step, so that every call runs from its first line to  *)
(* its return before the next call starts.  Time still passes.             *)
(***************************************************************************)
Busy(p) == pc[p] \notin {"idle", "done"}
Sequential == \A p, q \in Procs : (Busy(p) /\ q # p) => pc'[q] = pc[q]
Quiescent == \A p \in Procs : ~Busy(p)

NextSeq == Next /\ Sequential

SpecSeq == Init /\ [][NextSeq]_vars

\* the gate with one scan at a time
NextCheckinSeq == NextCheckin /\ Sequential

SpecCheckinSeq == InitCheckin /\ [][NextCheckinSeq]_vars

\* the gate with tickets of tier t1 in every status, scanned at either event, one
\* scan at a time and all of them within the same minute; tickets are inserted,
\* cancelled and refunded between the scans
ScanCalls ==
    \/ \E p \in Procs, q \in Quantities :
          CreateTicketsFromOrder(p, 1, "t1", "u1", q, FreshCodes(q))
    \/ InsertReservedTicket("t1")
    \/ \E id \in 1..MaxTickets, s \in RefundStatuses : ExternalStatusChange(id, s)
    \/ \E p \in Procs, c \in ScanCodes, e \in Events : ValidateTicketForCheckin(p, c, e)
    \/ \E p \in Procs : CheckInTicketSave(p)
    \/ \E p \in Procs : CheckInTicketCreate(p)
    \/ \E p \in Procs, c \in ScanCodes, e \in Events : ValidateQRCodeHandler(p, c, e)
    \/ \E p \in Procs : ValidateQRCodeHandlerSave(p)
    \/ \E p \in Procs : ValidateQRCodeHandlerCreate(p)
    \/ \E p \in Procs : Finish(p)

NextScan == ScanCalls /\ Sequential /\ (pc' = pc => Quiescent)

SpecScan == InitCheckin /\ [][NextScan]_vars

(***************************************************************************)
(* The box office and the gate together, one call at a time: holds are     *)
(* made on t1, the order is paid, tickets are issued for it and scanned.   *)
(***************************************************************************)
\* the ids of orders a caller can name: the ones created, or a made-up one
OrderIDs == 1..(MaxOrders + 1)

OfficeCalls ==
    \/ \E p \in Procs, q \in Quantities : CreateReservation(p, "t1", q)
    \/ \E p \in Procs : CreateReservationSet(p)
    \/ \E p \in Procs : CreateReservationSave(p)
    \/ \E p \in Procs : CreateReservationRollback(p)
    \/ \E p \in Procs, o \in OrderIDs : ProcessOrderPayment(p, o)
    \/ \E p \in Procs : ProcessOrderPaymentSave(p)
    \/ \E p \in Procs : ProcessOrderPaymentCreate(p)
    \/ \E p \in Procs, q \in Quantities :
          CreateTicketsFromOrder(p, 1, "t1", "u1", q, FreshCodes(q))
    \/ \E p \in Procs, c \in ScanCodes, e \in Events : ValidateTicketForCheckin(p, c, e)
    \/ \E p \in Procs : CheckInTicketSave(p)
    \/ \E p \in Procs : CheckInTicketCreate(p)
    \/ \E p \in Procs, c \in ScanCodes, e \in Events : ValidateQRCodeHandler(p, c, e)
    \/ \E p \in Procs : ValidateQRCodeHandlerSave(p)
    \/ \E p \in Procs : ValidateQRCodeHandlerCreate(p)
    \/ \E p \in Procs : Finish(p)

NextOffice == OfficeCalls /\ Sequential

SpecOffice == InitCheckin /\ [][NextOffice]_vars

(***************************************************************************)
(* The box office of t1 while the price of the tier changes between the    *)
(* calls: holds are made, read and released, one call at a time.           *)
(***************************************************************************)
\* UPDATE ticket_tiers SET price = ? WHERE id = ?
ChangePrice(tierID, price) ==
    /\ Quiescent
    /\ tiers[tierID].price # price
    /\ tiers' = [tiers EXCEPT ![tierID].price = price]
    /\ UNCHANGED <<calls, redis, now, nextRid, orders, tickets, checkins, pc, local, ret, held,
                   released, started, payments>>

PriceCalls ==
    \/ \E p \in Procs, q \in Quantities : CreateReservation(p, "t1", q)
    \/ \E p \in Procs : CreateReservationSet(p)
    \/ \E p \in Procs : CreateReservationSave(p)
    \/ \E p \in Procs : CreateReservationRollback(p)
    \/ \E p \in Procs, r \in KnownIDs : GetReservation(p, r)
    \/ \E p \in Procs, r \in KnownIDs : DeleteReservation(p, r)
    \/ \E p \in Procs : DeleteReservationUpdate(p)
    \/ \E p \in Procs : DeleteReservationDel(p)
    \/ \E price \in Prices : ChangePrice("t1", price)
    \/ \E p \in Procs : Finish(p)

NextPrice == PriceCalls /\ Sequential

SpecPrice == Init /\ [][NextPrice]_vars

(***************************************************************************)
(* The reserve endpoint next to the service: holds are made by             *)
(* CreateReservation and asked for through ReserveTicketHandler, one call  *)
(* at a time.                                                              *)
(***************************************************************************)
ReserveCalls ==
    \/ \E p \in Procs, t \in TierIDs, q \in Quantities : ReserveTicketHandler(p, t, q)
    \/ \E p \in Procs, t \in TierIDs, q \in Quantities : CreateReservation(p, t, q)
    \/ \E p \in Procs : CreateReservationSet(p)
    \/ \E p \in Procs : CreateReservationSave(p)
    \/ \E p \in Procs : CreateReservationRollback(p)
    \/ \E p \in Procs : Finish(p)
    \/ \E d \in TickMinutes : Tick(d)

NextReserve == ReserveCalls /\ Sequential

SpecReserve == Init /\ [][NextReserve]_vars

(***************************************************************************)
(* The sequential runs in which a call takes no time on the clock of the   *)
(* model, whose unit is the minute: the clock moves between calls only.    *)
(***************************************************************************)
NextTurn == NextSeq /\ (now' # now => Quiescent)

SpecTurn == Init /\ [][NextTurn]_vars

(***************************************************************************)
(* The box office with a tier whose sale window is set: holds are made on  *)
(* t1 and on t3, one call at a time, while the window opens and closes.    *)
(***************************************************************************)
InitWindow ==
    /\ tiers = TierRows(Tiers \cup WindowTiers)
    /\ redis = [r \in RIDs |-> NoKey]
    /\ now = 0
    /\ calls = 0
    /\ nextRid = 1
    /\ orders = <<>>
    /\ tickets = <<>>
    /\ checkins = <<>>
    /\ pc = [p \in Procs |-> "idle"]
    /\ local = [p \in Procs |-> NoLocal]
    /\ ret = [p \in Procs |-> NoReturn]
    /\ held = [r \in RIDs |-> NoReservation]
    /\ released = [r \in RIDs |-> 0]
    /\ started = [r \in RIDs |-> NoStart]
    /\ payments = <<>>

WindowCalls ==
    \/ \E p \in Procs, t \in WindowTiers \cup {"t1"}, q \in Quantities :
          CreateReservation(p, t, q)
    \/ \E p \in Procs : CreateReservationSet(p)
    \/ \E p \in Procs : CreateReservationSave(p)
    \/ \E p \in Procs : CreateReservationRollback(p)
    \/ \E p \in Procs : Finish(p)
    \/ \E d \in TickMinutes : Tick(d)

NextWindow == WindowCalls /\ Sequential

SpecWindow == InitWindow /\ [][NextWindow]_vars

(***************************************************************************)
(* CreateReservation called with any int as its quantity, one call at a    *)
(* time.                                                                   *)
(***************************************************************************)
QuantityCalls ==
    \/ \E p \in Procs, t \in Tiers, q \in AnyQuantities : CreateReservation(p, t, q)
    \/ \E p \in Procs : CreateReservationSet(p)
    \/ \E p \in Procs : CreateReservationSave(p)
    \/ \E p \in Procs : CreateReservationRollback(p)
    \/ \E p \in Procs : Finish(p)
    \/ \E d \in TickMinutes : Tick(d)

NextQuantity == QuantityCalls /\ Sequential

SpecQuantity == Init /\ [][NextQuantity]_vars

(***************************************************************************)
(* The runs in which a goroutine that is inside a handler goes on to its   *)
(* next line, a goroutine that has returned ends, and time passes.  When   *)
(* a request arrives is up to the callers: no request is owed.             *)
(***************************************************************************)
Step(p) ==
    \/ CreateReservationSet(p)
    \/ CreateReservationSave(p)
    \/ CreateReservationRollback(p)
    \/ DeleteReservationUpdate(p)
    \/ DeleteReservationDel(p)
    \/ Finish(p)

Fairness ==
    /\ \A p \in Procs : WF_vars(Step(p))
    /\ WF_vars(\E d \in TickMinutes : Tick(d))

SpecLive == Init /\ [][Next]_vars /\ Fairness

(***************************************************************************)
(* Quantities of sets of reservations.                                     *)
(***************************************************************************)
\* the reservations CreateReservation returned, for a tier
Held(t) == {r \in RIDs : held[r].reservation_id = r /\ held[r].tier_id = t}
\* the keys in Redis, for a tier
Ledger(t) == {r \in RIDs : redis[r].present /\ redis[r].data.tier_id = t}
\* an order was created for the reservation
Ordered(r) == \E i \in 1..Len(orders) : orders[i].request_reservation_id = r
\* a DeleteReservation of the reservation is past its GetReservation
Releasing(r) ==
    \E p \in Procs : pc[p] \in {"dr_update", "dr_del"} /\ local[p].reservation.reservation_id = r

RECURSIVE HeldQuantity(_)
HeldQuantity(S) ==
    IF S = {} THEN 0
    ELSE LET r == CHOOSE x \in S : TRUE IN held[r].quantity + HeldQuantity(S \ {r})

RECURSIVE ReleasedQuantity(_)
ReleasedQuantity(S) ==
    IF S = {} THEN 0
    ELSE LET r == CHOOSE x \in S : TRUE
         IN released[r] * held[r].quantity + ReleasedQuantity(S \ {r})

RECURSIVE LedgerQuantity(_)
LedgerQuantity(S) ==
    IF S = {} THEN 0
    ELSE LET r == CHOOSE x \in S : TRUE IN redis[r].data.quantity + LedgerQuantity(S \ {r})

Shortfall(t) == tiers[t].total_quantity - tiers[t].available_quantity

(***************************************************************************)
(* C1: as long as no hold was released, the quantities of the successful   *)
(* holds of a tier sum to at most its total quantity, and its available    *)
(* quantity is not negative.                                               *)
(***************************************************************************)
C1_NoOversell ==
    (\A r \in RIDs : released[r] = 0) =>
        \A t \in Tiers :
            /\ tiers[t].available_quantity >= 0
            /\ HeldQuantity(Held(t)) <= tiers[t].total_quantity

(***************************************************************************)
(* C3: every tier has 0 <= available_quantity <= total_quantity.           *)
(***************************************************************************)
C3_AvailableWithinTotal ==
    \A t \in Tiers :
        /\ 0 <= tiers[t].available_quantity
        /\ tiers[t].available_quantity <= tiers[t].total_quantity

(***************************************************************************)
(* C4: the quantity of a reservation is added back to its tier at most     *)
(* once, also when two DeleteReservation calls for it run concurrently.    *)
(***************************************************************************)
C4_SingleRelease == \A r \in RIDs : released[r] <= 1

(***************************************************************************)
(* C5: a hold whose ledger entry is gone and that was not converted         *)
(* eventually has its quantity added back to the tier.                     *)
(***************************************************************************)
LedgerGone(r) == held[r].reservation_id = r /\ ~redis[r].present

C5_ExpiredHoldReleased ==
    \A r \in RIDs : (LedgerGone(r) /\ ~Ordered(r)) ~> (released[r] >= 1 \/ Ordered(r))

\* why no later call can make up for it: once the entry of an unreleased hold is
\* gone and no DeleteReservation of it is under way, no step adds its quantity back
StrandedForGood ==
    [][\A r \in RIDs :
          (LedgerGone(r) /\ released[r] = 0 /\ ~Releasing(r)) => released'[r] = 0]_vars

(***************************************************************************)
(* C6: in every state the shortfall of a tier is the quantity of its       *)
(* ledger entries plus the quantity converted into orders.                 *)
(***************************************************************************)
Converted(t) == {r \in Held(t) : Ordered(r) /\ ~redis[r].present /\ released[r] = 0}

C6_DecrementMatchesLedger ==
    \A t \in Tiers :
        Shortfall(t) = LedgerQuantity(Ledger(t)) + HeldQuantity(Converted(t))

(***************************************************************************)
(* C7: when no call is under way, the available quantity of a tier is its  *)
(* initial value minus every quantity held plus every quantity released.   *)
(***************************************************************************)
C7_NoLostUpdate ==
    Quiescent =>
        \A t \in Tiers :
            tiers[t].available_quantity =
                TierQuantity - HeldQuantity(Held(t)) + ReleasedQuantity(Held(t))

(***************************************************************************)
(* C8: no reservation is both released (its quantity returned to the tier) *)
(* and converted into an order.                                            *)
(***************************************************************************)
C8_ReleaseOrConvert == \A r \in RIDs : ~(Ordered(r) /\ released[r] >= 1)

(***************************************************************************)
(* C9: once an order was created from a reservation, no step adds the      *)
(* quantity of that reservation back to the tier.                          *)
(***************************************************************************)
C9_NoMutationAfterConvert ==
    [][\A r \in RIDs : Ordered(r) => released'[r] = released[r]]_vars

(***************************************************************************)
(* C10: in sequential runs, however often DeleteReservation is called on   *)
(* a reservation, its quantity is added back once: between calls the       *)
(* available quantity of a tier is its total minus the holds never         *)
(* released, and a released reservation has no ledger entry.               *)
(***************************************************************************)
Unreleased(t) == {r \in Held(t) : released[r] = 0}

C10_ReleaseIdempotent ==
    Quiescent =>
        /\ \A t \in Tiers :
              tiers[t].available_quantity = TierQuantity - HeldQuantity(Unreleased(t))
        /\ \A r \in RIDs : released[r] >= 1 => ~redis[r].present

\* a second DeleteReservation of a released reservation has returned
C10_Witness ==
    \E p \in Procs :
        /\ pc[p] = "done"
        /\ ret[p].op = "DeleteReservation"
        /\ ret[p].err = "reservation not found or expired"
        /\ ret[p].rid \in RIDs
        /\ released[ret[p].rid] = 1

(***************************************************************************)
(* C2: of the check-ins of one ticket, at most one succeeds, and a         *)
(* check-in that loses to another one returns "already checked in".        *)
(***************************************************************************)
CheckinOps == {"CheckInTicket", "ValidateQRCodeHandler"}
AlreadyUsed == {ServiceMessages.used, HandlerMessages.used}
NotActive ==
    {m.not_active \o s : m \in {ServiceMessages, HandlerMessages},
                         s \in {TicketReserved, TicketCancelled, TicketRefunded}}
CheckedIn(p, id) ==
    pc[p] = "done" /\ ret[p].op \in CheckinOps /\ ret[p].ticket = id /\ ret[p].err = "none"
\* the scan was turned down because of the state of the ticket or of its checkin
LostCheckin(p, id) ==
    /\ pc[p] = "done"
    /\ ret[p].op \in CheckinOps
    /\ ret[p].ticket = id
    /\ ret[p].err \in AlreadyUsed \cup NotActive
                       \cup {"failed to create check-in record: duplicate key"}

C2_ExactlyOneCheckin ==
    \A id \in 1..Len(tickets) : \A p, q \in Procs :
        /\ (CheckedIn(p, id) /\ CheckedIn(q, id)) => p = q
        /\ (CheckedIn(p, id) /\ LostCheckin(q, id)) => ret[q].err \in AlreadyUsed

(***************************************************************************)
(* C11: a DeleteReservation of a reservation that is not in the ledger     *)
(* (never created, expired, or released before) reports success: no        *)
(* DeleteReservation returns "reservation not found or expired".           *)
(***************************************************************************)
C11_ReleaseOfMissingSucceeds ==
    \A p \in Procs :
        (pc[p] = "done" /\ ret[p].op = "DeleteReservation")
            => ret[p].err # "reservation not found or expired"

(***************************************************************************)
(* C12: in sequential runs, when the call that follows a successful        *)
(* CreateReservation is a DeleteReservation of the reservation it          *)
(* returned, and that call succeeds, the available quantity of the tier is *)
(* what it was before the hold and the ledger has no entry for it.         *)
(***************************************************************************)
\* p has returned from a successful DeleteReservation of r, the call made right
\* after the CreateReservation that returned r, and no call was made since
RoundTrip(p, r) ==
    /\ pc[p] = "done"
    /\ ret[p].op = "DeleteReservation"
    /\ ret[p].err = "none"
    /\ ret[p].rid = r
    /\ held[r].reservation_id = r
    /\ calls = started[r].call + 1

C12_RoundTripRestores ==
    \A p \in Procs : \A r \in RIDs :
        RoundTrip(p, r) =>
            /\ tiers[held[r].tier_id].available_quantity = started[r].available_quantity
            /\ ~redis[r].present

\* a round trip of a hold made on a tier that had holds on it already
C12_Witness ==
    \E p \in Procs : \E r \in RIDs :
        RoundTrip(p, r) /\ started[r].available_quantity < TierQuantity

(***************************************************************************)
(* C13: a CreateReservation that is turned down because the tier does not  *)
(* exist, has too few tickets left, or belongs to an event that is not     *)
(* published changes no tier and no ledger entry.                          *)
(***************************************************************************)
RejectedHold ==
    {"tier not found", "only N tickets available", "event is not available for booking"}

\* p returns from CreateReservation in this step, turned down
HoldRejected(p) ==
    /\ pc[p] = "idle"
    /\ pc'[p] = "done"
    /\ ret'[p].op = "CreateReservation"
    /\ ret'[p].err \in RejectedHold

C13_RejectedHoldMutatesNothing ==
    [][\A p \in Procs : HoldRejected(p) => (tiers' = tiers /\ redis' = redis)]_vars

\* one call was turned down for want of tickets, another for its event
C13_Witness ==
    \E p, q \in Procs :
        /\ pc[p] = "done" /\ ret[p].op = "CreateReservation"
        /\ ret[p].err = "only N tickets available"
        /\ pc[q] = "done" /\ ret[q].op = "CreateReservation"
        /\ ret[q].err = "event is not available for booking"

(***************************************************************************)
(* C14: no hold is made on a tier outside its sale window: every           *)
(* reservation CreateReservation returned was created at a time that is    *)
(* not before the tier's sale start and not after its sale end.            *)
(***************************************************************************)
InSaleWindow(row, at) ==
    /\ (row.sale_start_time # NoTime => at >= row.sale_start_time)
    /\ (row.sale_end_time # NoTime => at <= row.sale_end_time)

C14_NoHoldOutsideSaleWindow ==
    \A r \in RIDs :
        held[r].reservation_id = r => InSaleWindow(tiers[held[r].tier_id], held[r].created_at)

(***************************************************************************)
(* C15: every hold is of a quantity of at least 1 and at most the          *)
(* per-order maximum, and no call takes the available quantity of a tier   *)
(* above its total.                                                        *)
(***************************************************************************)
C15_QuantityWithinBounds ==
    /\ \A r \in RIDs :
          held[r].reservation_id = r =>
              (held[r].quantity >= 1 /\ held[r].quantity <= MaxPerOrder)
    /\ \A t \in Tiers : tiers[t].available_quantity <= tiers[t].total_quantity

(***************************************************************************)
(* C16: a reservation is obtainable until its expiry time and not after    *)
(* it: a GetReservation of it succeeds only before its expires_at, fails   *)
(* only when it has expired or was released, and no order is created from  *)
(* it once its expires_at has passed.                                      *)
(***************************************************************************)
\* p returns from GetReservation of reservation r in this step
GotReservation(p, r) ==
    /\ pc[p] = "idle"
    /\ pc'[p] = "done"
    /\ ret'[p].op = "GetReservation"
    /\ ret'[p].rid = r
    /\ held[r].reservation_id = r

\* an order is created in this step from reservation r
OrderedNow(r) ==
    /\ Len(orders') = Len(orders) + 1
    /\ orders'[Len(orders')].request_reservation_id = r
    /\ held[r].reservation_id = r

PastExpiry(r) == now >= held[r].expires_at

\* GetReservation succeeds only before expiry
C16_GetOnlyBeforeExpiry ==
    [][\A p \in Procs, r \in RIDs :
          (GotReservation(p, r) /\ ret'[p].err = "none") => ~PastExpiry(r)]_vars

\* GetReservation fails only on a reservation that has expired or was released
C16_GetUntilExpiry ==
    [][\A p \in Procs, r \in RIDs :
          (GotReservation(p, r) /\ ret'[p].err # "none")
              => (PastExpiry(r) \/ released[r] >= 1)]_vars

C16_NothingAfterExpiry ==
    [][\A p \in Procs, r \in RIDs :
          /\ (GotReservation(p, r) /\ ret'[p].err = "none") => ~PastExpiry(r)
          /\ (GotReservation(p, r) /\ ret'[p].err # "none")
                => (PastExpiry(r) \/ released[r] >= 1)
          /\ OrderedNow(r) => ~PastExpiry(r)]_vars

(***************************************************************************)
(* C17: an order is created only from a reservation that is in the ledger  *)
(* and has not expired: whenever an order is created, the reservation id   *)
(* of the request names a live ledger entry.                               *)
(***************************************************************************)
\* an order is created in this step by a request that names reservation id rid
OrderCreatedFor(rid) ==
    /\ Len(orders') = Len(orders) + 1
    /\ orders'[Len(orders')].request_reservation_id = rid

C17_OrderNeedsReservation ==
    [][\A rid \in RIDs \cup {NoSuchReservation} :
          OrderCreatedFor(rid) => GetReservationFound(rid)]_vars

(***************************************************************************)
(* C18: with one scan at a time, a check-in that succeeds leaves the       *)
(* ticket used and with exactly one checkin record, and a scan of a used   *)
(* ticket for its own event returns "already checked in" and changes       *)
(* neither the ticket nor the checkins.                                    *)
(***************************************************************************)
\* p returns from a check-in of ticket id in this step
CheckinReturns(p, id) ==
    /\ pc[p] # "done"
    /\ pc'[p] = "done"
    /\ ret'[p].op \in CheckinOps
    /\ ret'[p].ticket = id

CheckinsOf(id) == {i \in 1..Len(checkins) : checkins[i].ticket_id = id}

WrongEvent == {ServiceMessages.wrong_event, HandlerMessages.wrong_event}

C18_SecondScanAlreadyUsed ==
    [][\A p \in Procs : \A id \in 1..Len(tickets) :
          CheckinReturns(p, id) =>
              /\ ret'[p].err = "none" =>
                    (tickets'[id].status = TicketUsed /\ Cardinality(CheckinsOf(id)') = 1)
              /\ (tickets[id].status = TicketUsed /\ pc[p] = "idle"
                     /\ ret'[p].err \notin WrongEvent) =>
                    (ret'[p].err \in AlreadyUsed /\ UNCHANGED <<tickets, checkins>>)]_vars

(***************************************************************************)
(* C19: for every ticket, checked_in_at is set if and only if its status   *)
(* is used.                                                                *)
(***************************************************************************)
C19_CheckedInAtIffUsed ==
    \A id \in 1..Len(tickets) :
        (tickets[id].checked_in_at # NoTime) <=> (tickets[id].status = TicketUsed)

(***************************************************************************)
(* C20: no ticket has more than one checkin record, whatever the number    *)
(* and interleaving of the check-ins.                                      *)
(***************************************************************************)
C20_OneCheckinPerTicket ==
    \A id \in 1..Len(tickets) : Cardinality(CheckinsOf(id)) <= 1

\* a second insert for a ticket was turned down by the unique index
C20_Witness ==
    \E p \in Procs :
        /\ pc[p] = "done"
        /\ ret[p].op = "CheckInTicket"
        /\ ret[p].err = "failed to create check-in record: duplicate key"
        /\ Cardinality(CheckinsOf(ret[p].ticket)) = 1

(***************************************************************************)
(* C21: a ticket becomes used and gets its checkin record in one step:     *)
(* whenever no check-in stands between its write of the ticket and its     *)
(* insert of the checkin, a ticket is used if and only if exactly one      *)
(* checkin record exists for it.                                           *)
(***************************************************************************)
\* a check-in has saved the ticket and has not yet inserted the checkin
BetweenWrites(p) == pc[p] \in {"ci_create", "vh_create"}

C21_UsedIffOneCheckin ==
    (\A p \in Procs : ~BetweenWrites(p)) =>
        \A id \in 1..Len(tickets) :
            (tickets[id].status = TicketUsed) <=> (Cardinality(CheckinsOf(id)) = 1)

(***************************************************************************)
(* C22: a scan is turned down in a fixed order of precedence: InvalidCode  *)
(* when no ticket has the code, else WrongEvent when the tier of the       *)
(* ticket belongs to another event, else AlreadyUsed when the ticket is    *)
(* used, else NotActive when it is reserved, cancelled or refunded.        *)
(* AlreadyUsed is a message of its own, and a scan that is turned down     *)
(* changes no ticket and no checkin.                                       *)
(***************************************************************************)
\* what the scan of code c at event e is to be answered with
ScanClass(c, e) ==
    LET id == TicketByCode(c) IN
    CASE id = 0 -> "InvalidCode"
      [] id # 0 /\ tiers[tickets[id].tier_id].event_id # e -> "WrongEvent"
      [] id # 0 /\ tiers[tickets[id].tier_id].event_id = e
              /\ tickets[id].status = TicketUsed -> "AlreadyUsed"
      [] id # 0 /\ tiers[tickets[id].tier_id].event_id = e
              /\ tickets[id].status \in {TicketReserved, TicketCancelled, TicketRefunded}
           -> "NotActive"
      [] OTHER -> "Valid"

\* the step of p answers the scan of c at e as its class asks, in the words msg
ScanAnswered(p, c, e, msg) ==
    LET k == ScanClass(c, e) IN
    /\ k = "InvalidCode" => ret'[p].err = msg.invalid
    /\ k = "WrongEvent" => ret'[p].err = msg.wrong_event
    /\ k = "AlreadyUsed" => ret'[p].err = msg.used
    /\ k = "NotActive" => ret'[p].err = msg.not_active \o tickets[TicketByCode(c)].status
    /\ k = "Valid" => pc'[p] # "done"
    /\ k # "Valid" => (pc'[p] = "done" /\ tickets' = tickets /\ checkins' = checkins)
    /\ msg.used # msg.invalid
    /\ msg.used \notin NotActive

C22_RejectionPrecedence ==
    [][\A p \in Procs :
          (pc[p] = "idle" /\ pc'[p] # "idle") =>
              \A c \in ScanCodes : \A e \in Events :
                  /\ ValidateTicketForCheckin(p, c, e)
                        => ScanAnswered(p, c, e, ServiceMessages)
                  /\ ValidateQRCodeHandler(p, c, e)
                        => ScanAnswered(p, c, e, HandlerMessages)]_vars

\* a cancelled or refunded ticket was scanned at the wrong event and at its own
C22_Witness ==
    \E p, q \in Procs :
        /\ pc[p] = "done" /\ ret[p].op \in CheckinOps /\ ret[p].err \in WrongEvent
        /\ pc[q] = "done" /\ ret[q].op \in CheckinOps /\ ret[q].err \in NotActive
        /\ ret[p].ticket = ret[q].ticket

(***************************************************************************)
(* C23: check-in and the refund/cancellation path exclude each other on a  *)
(* ticket: a ticket that is cancelled or refunded never becomes used, also *)
(* when a check-in of it had read it as active before, and no check-in of  *)
(* a ticket that is cancelled or refunded reports success.                 *)
(***************************************************************************)
C23_NoStaleCheckinWrite ==
    [][\A id \in 1..Len(tickets) :
          tickets[id].status \in RefundStatuses =>
              /\ tickets'[id].status = tickets[id].status
              /\ \A p \in Procs : CheckinReturns(p, id) => ret'[p].err # "none"]_vars

(***************************************************************************)
(* C28: once a ticket is used it stays used and keeps the time of its      *)
(* scan: no step changes the status or the checked_in_at of a used ticket, *)
(* and no step makes a cancelled or refunded ticket used.                  *)
(***************************************************************************)
C28_UsedStaysUsed ==
    [][\A id \in 1..Len(tickets) :
          /\ tickets[id].status = TicketUsed =>
                /\ tickets'[id].status = TicketUsed
                /\ tickets'[id].checked_in_at = tickets[id].checked_in_at
          /\ tickets[id].status \in RefundStatuses => tickets'[id].status # TicketUsed]_vars

(***************************************************************************)
(* C24: a CreateTicketsFromOrder that succeeds adds exactly quantity       *)
(* tickets, each active, each of the given order, tier and owner, and each *)
(* with a scan code that no other ticket has.                              *)
(***************************************************************************)
\* the step adds n tickets of order o, tier t and owner u, with codes of their own
Issued(n, o, t, u) ==
    /\ Len(tickets') = Len(tickets) + n
    /\ SubSeq(tickets', 1, Len(tickets)) = tickets
    /\ \A i \in (Len(tickets) + 1)..Len(tickets') :
          /\ tickets'[i].status = TicketActive
          /\ tickets'[i].order_id = o
          /\ tickets'[i].tier_id = t
          /\ tickets'[i].owner_id = u
          /\ \A j \in 1..Len(tickets') : j # i => tickets'[j].qr_code # tickets'[i].qr_code

\* p returns from CreateTicketsFromOrder in this step, with the tickets
IssueSucceeded(p) ==
    /\ pc[p] = "idle"
    /\ pc'[p] = "done"
    /\ ret'[p].op = "CreateTicketsFromOrder"
    /\ ret'[p].err = "none"

C24_IssuesQuantityTickets ==
    [][\A p \in Procs :
          IssueSucceeded(p) =>
              \A t \in Tiers, u \in Users, q \in Quantities : \A codes \in [1..q -> Codes] :
                  CreateTicketsFromOrder(p, 1, t, u, q, codes) => Issued(q, 1, t, u)]_vars

\* two calls have issued a ticket each, in the same minute
C24_Witness ==
    /\ Len(tickets) = 2
    /\ tickets[1].owner_id # tickets[2].owner_id
    /\ tickets[1].qr_code[3] = tickets[2].qr_code[3]
    /\ \E p \in Procs :
          pc[p] = "done" /\ ret[p].op = "CreateTicketsFromOrder" /\ ret[p].err = "none"

(***************************************************************************)
(* C25: CreateTicketsFromOrder is all or nothing: a call that returns an   *)
(* error, such as for a scan code that exists already, has added no        *)
(* ticket.                                                                 *)
(***************************************************************************)
\* p returns from CreateTicketsFromOrder in this step, with an error
IssueFailed(p) ==
    /\ pc[p] = "idle"
    /\ pc'[p] = "done"
    /\ ret'[p].op = "CreateTicketsFromOrder"
    /\ ret'[p].err # "none"

C25_IssueAllOrNothing ==
    [][\A p \in Procs : IssueFailed(p) => tickets' = tickets]_vars

\* a call was turned down for a scan code, with a ticket in the table
C25_Witness ==
    /\ Len(tickets) = 1
    /\ \E p \in Procs :
          /\ pc[p] = "done"
          /\ ret[p].op = "CreateTicketsFromOrder"
          /\ ret[p].err = "failed to create tickets: duplicate key"

(***************************************************************************)
(* C26: the quantities of a tier are changed by CreateReservation and      *)
(* DeleteReservation only: no step of CreateTicketsFromOrder, of           *)
(* ProcessOrderPayment or of a check-in changes the available or the total *)
(* quantity of any tier.                                                   *)
(***************************************************************************)
FrameOps ==
    {"CreateTicketsFromOrder", "ProcessOrderPayment", "CheckInTicket", "ValidateQRCodeHandler"}
FrameSteps == {"pp_save", "pp_create", "ci_save", "ci_create", "vh_save", "vh_create"}

\* p takes a step of ticket issuance, of order payment or of a check-in
FrameStep(p) ==
    /\ pc'[p] # pc[p]
    /\ \/ pc[p] \in FrameSteps
       \/ pc'[p] \in FrameSteps
       \/ pc[p] = "idle" /\ pc'[p] = "done" /\ ret'[p].op \in FrameOps

C26_QuantitiesFramed ==
    [][\A p \in Procs :
          FrameStep(p) =>
              \A t \in Tiers :
                  /\ tiers'[t].available_quantity = tiers[t].available_quantity
                  /\ tiers'[t].total_quantity = tiers[t].total_quantity]_vars

\* with a hold on the tier, tickets were issued for the order and the order paid
C26_Witness ==
    /\ tiers["t1"].available_quantity < tiers["t1"].total_quantity
    /\ Len(tickets) >= 1
    /\ Len(payments) = 1
    /\ orders[1].status = "paid"

(***************************************************************************)
(* C27: the total price of a reservation is its unit price times its       *)
(* quantity; the unit price is the price of the tier when the hold is      *)
(* made, and the unit and total price of a reservation in the ledger stay  *)
(* what they are when the price of the tier changes.                       *)
(***************************************************************************)
\* the entry of r is written in this step
LedgerEntryWritten(r) == ~redis[r].present /\ redis'[r].present

C27_PriceSnapshot ==
    /\ [](\A r \in RIDs :
            redis[r].present =>
                redis[r].data.total_price = redis[r].data.unit_price * redis[r].data.quantity)
    /\ [][\A r \in RIDs :
            /\ LedgerEntryWritten(r) =>
                  redis'[r].data.unit_price = tiers[redis'[r].data.tier_id].price
            /\ (redis[r].present /\ redis'[r].present) =>
                  /\ redis'[r].data.unit_price = redis[r].data.unit_price
                  /\ redis'[r].data.total_price = redis[r].data.total_price]_vars

\* a hold of two tickets whose tier has another price by now was read
C27_Witness ==
    \E p \in Procs : \E r \in RIDs :
        /\ pc[p] = "done" /\ ret[p].op = "GetReservation" /\ ret[p].err = "none"
        /\ ret[p].rid = r
        /\ redis[r].present
        /\ redis[r].data.quantity = 2
        /\ redis[r].data.unit_price # tiers[redis[r].data.tier_id].price

(***************************************************************************)
(* C29: ReserveTicketHandler decides as CreateReservation does: a request  *)
(* is accepted exactly when the tier exists, its event is published and    *)
(* its available quantity is at least the quantity asked for, and an       *)
(* accepted request has taken the quantity from the tier.                  *)
(***************************************************************************)
\* CreateReservation accepts a request for quantity tickets of the tier
HoldAccepted(tierID, quantity) ==
    /\ tierID \in DOMAIN tiers
    /\ tiers[tierID].event_status = EventPublished
    /\ tiers[tierID].available_quantity >= quantity

C29_HandlerDecidesAsService ==
    [][\A p \in Procs :
          (pc[p] = "idle" /\ pc'[p] = "done" /\ ret'[p].op = "ReserveTicketHandler") =>
              \A t \in TierIDs, q \in Quantities :
                  ReserveTicketHandler(p, t, q) =>
                      /\ (ret'[p].err = "none") <=> HoldAccepted(t, q)
                      /\ ret'[p].err = "none" =>
                            tiers'[t].available_quantity = tiers[t].available_quantity - q]_vars

(***************************************************************************)
(* C30: a CreateReservation whose write of the tier fails removes the      *)
(* ledger entry it has written and changes no tier: once the call has      *)
(* returned its error, the ledger has no entry for the reservation of that *)
(* call, also when other calls on the tier run at the same time.           *)
(***************************************************************************)
\* a CreateReservation that made the id r is still under way
Creating(r) ==
    \E p \in Procs :
        pc[p] \in {"cr_set", "cr_save", "cr_rollback"} /\ local[p].reservation.reservation_id = r

\* the CreateReservation that made the id r has returned an error
HoldFailed(r) == started[r].call # 0 /\ held[r].reservation_id # r /\ ~Creating(r)

\* p takes a step on the path of a tier write that failed
RollingBack(p) ==
    \/ pc[p] = "cr_save" /\ pc'[p] = "cr_rollback"
    \/ pc[p] = "cr_rollback" /\ pc'[p] = "done"

C30_FailedHoldLeavesNothing ==
    /\ [](\A r \in RIDs : HoldFailed(r) => ~redis[r].present)
    /\ [][\A p \in Procs : RollingBack(p) => tiers' = tiers]_vars

\* the write of the tier failed for one call while another call held tickets of
\* the same tier
C30_Witness ==
    \E p \in Procs : \E r, r2 \in RIDs :
        /\ pc[p] = "done"
        /\ ret[p].op = "CreateReservation"
        /\ ret[p].err = "failed to reserve tickets"
        /\ HoldFailed(r)
        /\ held[r2].reservation_id = r2
        /\ redis[r2].present

====
